---- MODULE Spec2Model ----
(***************************************************************************)
(* Model of the predictive-maintenance backend:                            *)
(*   backend/app/main.py              InferenceService, lifespan, probes   *)
(*   backend/app/api/v1/endpoints.py  engine table, the three API routes   *)
(*                                                                         *)
(* Numbers that are Python floats in the source are kept exact here:       *)
(*   - the unrounded health score is the rational num/den,                 *)
(*   - a value rounded to 2 decimals is an integer count of hundredths     *)
(*     (23.44 is 2344), and so is the confidence (0.95 is 95).             *)
(* Sequences are 1-based: Python index i is TLA+ index i + 1.              *)
(***************************************************************************)
EXTENDS Integers, Sequences, FiniteSets, TLC

(* ----------------------------- bounds ---------------------------------- *)

\* number of requests that can be in flight at once
MaxReq == 2

\* largest max_cycles argument tried when the scoring function is swept
MaxCyclesArg == 260

Slots == 1 .. MaxReq

\* unit ids a client may put in the path: the three keys of the table and
\* three ids that are not keys
UnitIds == {0, 1, 2, 3, 5, 99}

(* --------------------------- static data ------------------------------- *)

\* Python None
None == [none |-> TRUE]

SENSOR_METADATA_INIT ==
    [sid \in {"s_1", "s_2", "s_3", "s_4", "s_5", "s_6", "s_7", "s_8", "s_9",
              "s_10", "s_11", "s_12", "s_13", "s_14", "s_15", "s_16", "s_17",
              "s_18", "s_19", "s_20", "s_21"} |->
        CASE sid = "s_1"  -> [name |-> "Fan Inlet Temperature", unit |-> "degR"]
          [] sid = "s_2"  -> [name |-> "LPC Outlet Temperature", unit |-> "degR"]
          [] sid = "s_3"  -> [name |-> "HPC Outlet Temperature", unit |-> "degR"]
          [] sid = "s_4"  -> [name |-> "LPT Outlet Temperature", unit |-> "degR"]
          [] sid = "s_5"  -> [name |-> "Fan Inlet Pressure", unit |-> "psia"]
          [] sid = "s_6"  -> [name |-> "Bypass Duct Pressure", unit |-> "psia"]
          [] sid = "s_7"  -> [name |-> "HPC Outlet Pressure", unit |-> "psia"]
          [] sid = "s_8"  -> [name |-> "Physical Fan Speed", unit |-> "rpm"]
          [] sid = "s_9"  -> [name |-> "Physical Core Speed", unit |-> "rpm"]
          [] sid = "s_10" -> [name |-> "Engine Pressure Ratio", unit |-> "-"]
          [] sid = "s_11" -> [name |-> "HPC Outlet Static Pressure", unit |-> "psia"]
          [] sid = "s_12" -> [name |-> "Fuel Flow Ratio", unit |-> "pps/psi"]
          [] sid = "s_13" -> [name |-> "Corrected Fan Speed", unit |-> "rpm"]
          [] sid = "s_14" -> [name |-> "Corrected Core Speed", unit |-> "rpm"]
          [] sid = "s_15" -> [name |-> "Bypass Ratio", unit |-> "-"]
          [] sid = "s_16" -> [name |-> "Burner Fuel-Air Ratio", unit |-> "-"]
          [] sid = "s_17" -> [name |-> "Bleed Enthalpy", unit |-> "-"]
          [] sid = "s_18" -> [name |-> "Demanded Fan Speed", unit |-> "rpm"]
          [] sid = "s_19" -> [name |-> "Demanded Corrected Fan Speed", unit |-> "rpm"]
          [] sid = "s_20" -> [name |-> "HPT Coolant Bleed", unit |-> "lbm/s"]
          [] sid = "s_21" -> [name |-> "LPT Coolant Bleed", unit |-> "lbm/s"]]

\* the dict literal, as its items in insertion order
FAKE_DB_ENGINES_INIT ==
    << [key |-> 1, value |-> [max_cycles |-> 192, status |-> "Active"]],
       [key |-> 2, value |-> [max_cycles |-> 250, status |-> "Retired"]],
       [key |-> 5, value |-> [max_cycles |-> 150, status |-> "Active"]] >>

(* ------------------------------ state ---------------------------------- *)

VARIABLES
    FAKE_DB_ENGINES,   \* the engine table: items of the dict, insertion order
    SENSOR_METADATA,   \* the sensor table
    lifespan_pc,       \* where the lifespan context manager stands
    model,             \* InferenceService.model of the service of lifespan
    inference_service, \* TRUE once app.state.inference_service is assigned
    reqs               \* per request slot: the handler's frame and response

vars == <<FAKE_DB_ENGINES, SENSOR_METADATA, lifespan_pc, model,
          inference_service, reqs>>

\* dict helpers
Keys(db) == {db[i].key : i \in 1 .. Len(db)}

\* dict.get(k): the value, or None
Get(db, k) ==
    IF k \in Keys(db)
    THEN db[CHOOSE i \in 1 .. Len(db) : db[i].key = k].value
    ELSE None

NoBody == [empty |-> TRUE]

\* a free slot: no request is being handled.  predict_calls and concurrent
\* are history fields: how often this request invoked service.predict, and
\* whether another /predict request was suspended in predict while this one
\* entered or left it.
IdleReq ==
    [pc |-> "idle", route |-> "-", unit_id |-> 0, max_cycles |-> 0,
     predict_calls |-> 0, concurrent |-> FALSE, status |-> 0, body |-> NoBody]

Done(route, unit_id, calls, conc, status, body) ==
    [pc |-> "done", route |-> route, unit_id |-> unit_id, max_cycles |-> 0,
     predict_calls |-> calls, concurrent |-> conc, status |-> status,
     body |-> body]

\* raise HTTPException(status_code=..., detail=...)
HTTPException(detail) == [detail |-> detail]

Init ==
    /\ FAKE_DB_ENGINES = FAKE_DB_ENGINES_INIT
    /\ SENSOR_METADATA = SENSOR_METADATA_INIT
    /\ lifespan_pc = "startup"
    /\ model = "None"
    /\ inference_service = FALSE
    /\ reqs = [r \in Slots |-> IdleReq]

(* ----------------------------- lifespan -------------------------------- *)

\* variant: the service is attached to the application state before its
\* load step has run
LifespanStart_attach_first ==
    /\ lifespan_pc = "startup"
    /\ lifespan_pc' = "load_sleep"
    /\ model' = "None"
    /\ inference_service' = TRUE
    /\ UNCHANGED <<FAKE_DB_ENGINES, SENSOR_METADATA, reqs>>

\* service = InferenceService(); service.load() runs up to its sleep
LifespanStart ==
    /\ lifespan_pc = "startup"
    /\ lifespan_pc' = "load_sleep"
    /\ model' = "None"
    /\ UNCHANGED <<FAKE_DB_ENGINES, SENSOR_METADATA, inference_service, reqs>>

\* variant: load returns without assigning the model
LoadFinish_no_model ==
    /\ lifespan_pc = "load_sleep"
    /\ inference_service' = TRUE
    /\ lifespan_pc' = "yield"
    /\ UNCHANGED <<FAKE_DB_ENGINES, SENSOR_METADATA, model, reqs>>

\* the sleep of load ends: the model is set, load returns, the service is
\* attached to the application state and the context manager yields
LoadFinish ==
    /\ lifespan_pc = "load_sleep"
    /\ model' = "LSTM_LOADED"
    /\ inference_service' = TRUE
    /\ lifespan_pc' = "yield"
    /\ UNCHANGED <<FAKE_DB_ENGINES, SENSOR_METADATA, reqs>>

\* variant: the shutdown code unloads the model
LifespanShutdown_unload ==
    /\ lifespan_pc = "yield"
    /\ lifespan_pc' = "shutdown"
    /\ model' = "None"
    /\ UNCHANGED <<FAKE_DB_ENGINES, SENSOR_METADATA, inference_service, reqs>>

\* the code after the yield: a print only
LifespanShutdown ==
    /\ lifespan_pc = "yield"
    /\ lifespan_pc' = "shutdown"
    /\ UNCHANGED <<FAKE_DB_ENGINES, SENSOR_METADATA, model, inference_service,
                   reqs>>

\* the application is run with lifespan=lifespan: the server hands requests
\* to the handlers only between the end of startup and the start of shutdown
Serving == lifespan_pc = "yield"

(* ------------------------ InferenceService.predict --------------------- *)

PredictedRul == 45

\* 0.95, in hundredths
Confidence == 95

\* (predicted_rul / max_cycles) * 100, as the rational num/den (den > 0)
RawHealth(max_cycles) == [num |-> PredictedRul * 100, den |-> max_cycles]

\* min(100, h)
Min100(h) == IF h.num > 100 * h.den THEN [num |-> 100, den |-> 1] ELSE h

\* max(0, h)
Max0(h) == IF h.num < 0 THEN [num |-> 0, den |-> 1] ELSE h

\* variant: the upper clamp is missing
HealthScore_no_min(max_cycles) == Max0(RawHealth(max_cycles))

\* health_score = max(0, min(100, (predicted_rul / max_cycles) * 100))
HealthScore(max_cycles) == Max0(Min100(RawHealth(max_cycles)))

\* variant: the first threshold is inclusive
RiskOf_inclusive(h) ==
    IF h.num <= 30 * h.den THEN "High"
    ELSE IF h.num < 70 * h.den THEN "Medium"
    ELSE "Low"

\* the if / elif / else on the unrounded health score
RiskOf(h) ==
    IF h.num < 30 * h.den THEN "High"
    ELSE IF h.num < 70 * h.den THEN "Medium"
    ELSE "Low"

\* round(h, 2), in hundredths: to nearest, a tie to the even neighbour
Round2(h) ==
    LET q == (h.num * 100) \div h.den
        rem == (h.num * 100) % h.den
    IN  IF 2 * rem > h.den \/ (2 * rem = h.den /\ q % 2 = 1)
        THEN q + 1
        ELSE q

\* the dict that predict returns for its argument
InferencePredict(max_cycles) ==
    LET health_score == HealthScore(max_cycles)
    IN  [predicted_rul |-> PredictedRul,
         health_score |-> Round2(health_score),
         risk_level |-> RiskOf(health_score),
         confidence |-> Confidence]

(* ------------------------------ handlers ------------------------------- *)

\* some other request is suspended in the sleep of predict
OtherInPredict(r) == \E q \in Slots \ {r} : reqs[q].pc = "await_predict"

SetReq(r, rec) ==
    /\ reqs' = [reqs EXCEPT ![r] = rec]
    /\ UNCHANGED <<FAKE_DB_ENGINES, SENSOR_METADATA, lifespan_pc, model,
                   inference_service>>

\* GET /health
health(r) ==
    /\ Serving
    /\ reqs[r].pc = "idle"
    /\ SetReq(r, Done("health", 0, 0, FALSE, 200, [status |-> "ok"]))

\* GET /ready: reading app.state.inference_service fails when it was never
\* assigned, and the server answers 500
ready(r) ==
    /\ Serving
    /\ reqs[r].pc = "idle"
    /\ SetReq(r, IF inference_service
                 THEN Done("ready", 0, 0, FALSE, 200,
                           [model_loaded |-> (model # "None")])
                 ELSE Done("ready", 0, 0, FALSE, 500, NoBody))

\* GET /api/v1/engines
list_engines(r) ==
    /\ Serving
    /\ reqs[r].pc = "idle"
    /\ SetReq(r, Done("engines", 0, 0, FALSE, 200,
                      [i \in 1 .. Len(FAKE_DB_ENGINES) |->
                          [unit_id |-> FAKE_DB_ENGINES[i].key,
                           max_cycles |-> FAKE_DB_ENGINES[i].value.max_cycles,
                           status |-> FAKE_DB_ENGINES[i].value.status]]))

\* variant: the not-found check is missing, so the status check runs on None
\* and its TypeError is answered with 500
predict_rul_checks_no_404(engine) ==
    IF engine = None THEN 500
    ELSE IF engine.status = "Retired" THEN 422
    ELSE 0

\* variant: the retired check is missing
predict_rul_checks_no_422(engine) ==
    IF engine = None THEN 404
    ELSE 0

\* the two checks of predict_rul on the looked-up engine: the status code of
\* the exception raised, or 0 when both pass
predict_rul_checks(engine) ==
    IF engine = None THEN 404
    ELSE IF engine.status = "Retired" THEN 422
    ELSE 0

predict_rul_detail(code) ==
    IF code = 404 THEN "Engine not found" ELSE "Engine is retired"

\* GET /api/v1/engines/{unit_id}/predict, up to the sleep inside predict
predict_rul_start(r, unit_id) ==
    /\ Serving
    /\ reqs[r].pc = "idle"
    /\ LET engine == Get(FAKE_DB_ENGINES, unit_id)
           code == predict_rul_checks(engine)
       IN  IF code # 0
           THEN SetReq(r, Done("predict", unit_id, 0, FALSE, code,
                               HTTPException(predict_rul_detail(code))))
           ELSE IF ~inference_service
           THEN SetReq(r, Done("predict", unit_id, 0, FALSE, 500, NoBody))
           ELSE SetReq(r, [pc |-> "await_predict", route |-> "predict",
                           unit_id |-> unit_id,
                           max_cycles |-> engine.max_cycles,
                           predict_calls |-> 1,
                           concurrent |-> OtherInPredict(r),
                           status |-> 0, body |-> NoBody])

\* variant: the argument is kept in an attribute of the shared service, so a
\* resumed call reads what some suspended call stored
PredictLocal_shared(r) ==
    reqs[CHOOSE q \in Slots : reqs[q].pc = "await_predict"].max_cycles

\* the max_cycles parameter in the frame of the suspended predict call
PredictLocal(r) == reqs[r].max_cycles

\* variant: current_cycle is the max-cycle count itself
PredictionBody_no_sub(unit_id, engine, result) ==
    [unit_id |-> unit_id,
     current_cycle |-> engine.max_cycles,
     predicted_rul |-> result.predicted_rul,
     health_score |-> result.health_score,
     risk_level |-> result.risk_level,
     confidence |-> result.confidence]

\* {"unit_id": ..., "current_cycle": ..., **result}
PredictionBody(unit_id, engine, result) ==
    [unit_id |-> unit_id,
     current_cycle |-> engine.max_cycles - result.predicted_rul,
     predicted_rul |-> result.predicted_rul,
     health_score |-> result.health_score,
     risk_level |-> result.risk_level,
     confidence |-> result.confidence]

\* PredictionResponse: health_score is validated with ge=0, le=100
ValidPrediction(body) == body.health_score >= 0 /\ body.health_score <= 10000

\* the sleep of predict ends: predict computes its result, the handler
\* composes the body (engine is still the dict of the table) and the
\* response model validates it
predict_rul_resume(r) ==
    /\ reqs[r].pc = "await_predict"
    /\ LET engine == Get(FAKE_DB_ENGINES, reqs[r].unit_id)
           result == InferencePredict(PredictLocal(r))
           body == PredictionBody(reqs[r].unit_id, engine, result)
           conc == reqs[r].concurrent \/ OtherInPredict(r)
       IN  IF ValidPrediction(body)
           THEN SetReq(r, Done("predict", reqs[r].unit_id,
                               reqs[r].predict_calls, conc, 200, body))
           ELSE SetReq(r, Done("predict", reqs[r].unit_id,
                               reqs[r].predict_calls, conc, 500, NoBody))

cycles == <<100, 101, 102, 103, 104>>

critical_sensors == <<"s_2", "s_11", "s_12", "s_14">>

\* variant: the progression starts one step late
TrendData_late == [j \in 1 .. Len(cycles) |-> 1400 + j * 2]

\* [1400 + i * 2 for i in range(len(cycles))]
TrendData == [j \in 1 .. Len(cycles) |-> 1400 + (j - 1) * 2]

\* the list built by the loop over critical_sensors
TrendSensors ==
    [k \in 1 .. Len(critical_sensors) |->
        [sensor_id |-> critical_sensors[k],
         name |-> SENSOR_METADATA[critical_sensors[k]].name,
         unit |-> SENSOR_METADATA[critical_sensors[k]].unit,
         data |-> TrendData]]

\* GET /api/v1/engines/{unit_id}/trends
get_trends(r, unit_id) ==
    /\ Serving
    /\ reqs[r].pc = "idle"
    /\ IF unit_id \notin Keys(FAKE_DB_ENGINES)
       THEN SetReq(r, Done("trends", unit_id, 0, FALSE, 404,
                           HTTPException("Engine not found")))
       ELSE SetReq(r, Done("trends", unit_id, 0, FALSE, 200,
                           [unit_id |-> unit_id,
                            cycles |-> cycles,
                            rul_trend |-> <<50, 49, 48, 47, 45>>,
                            sensors |-> TrendSensors]))

\* the response is sent and the slot is free for the next request
Respond(r) ==
    /\ reqs[r].pc = "done"
    /\ SetReq(r, IdleReq)

(* --------------------------- specifications ---------------------------- *)

Next ==
    \/ LifespanStart
    \/ LoadFinish
    \/ LifespanShutdown
    \/ \E r \in Slots : health(r)
    \/ \E r \in Slots : ready(r)
    \/ \E r \in Slots : list_engines(r)
    \/ \E r \in Slots, unit_id \in UnitIds : predict_rul_start(r, unit_id)
    \/ \E r \in Slots : predict_rul_resume(r)
    \/ \E r \in Slots, unit_id \in UnitIds : get_trends(r, unit_id)
    \/ \E r \in Slots : Respond(r)

Spec == Init /\ [][Next]_vars

\* Sweep of the scoring function: the table holds one Active engine, unit 1,
\* whose max_cycles is any positive integer up to MaxCyclesArg, and /predict
\* requests are served one at a time.
ScoreInit ==
    /\ \E m \in 1 .. MaxCyclesArg :
          FAKE_DB_ENGINES =
              << [key |-> 1, value |-> [max_cycles |-> m, status |-> "Active"]] >>
    /\ SENSOR_METADATA = SENSOR_METADATA_INIT
    /\ lifespan_pc = "startup"
    /\ model = "None"
    /\ inference_service = FALSE
    /\ reqs = [r \in Slots |-> IdleReq]

ScoreNext ==
    \/ LifespanStart
    \/ LoadFinish
    \/ \E unit_id \in UnitIds : predict_rul_start(1, unit_id)
    \/ predict_rul_resume(1)
    \/ Respond(1)

SpecScore == ScoreInit /\ [][ScoreNext]_vars

(* ------------------------------ properties ----------------------------- *)

DoneOn(r, route) == reqs[r].pc = "done" /\ reqs[r].route = route

Known(unit_id) == unit_id \in Keys(FAKE_DB_ENGINES)

StatusOf(unit_id) == Get(FAKE_DB_ENGINES, unit_id).status

\* the bucket of a rounded health score (in hundredths)
Bucket(hs) ==
    IF hs < 3000 THEN "High" ELSE IF hs < 7000 THEN "Medium" ELSE "Low"

\* C1: for every unit id that is not a key of the engine table, /predict and
\* /trends answer 404 (never 422 or 200), and such a request never reaches
\* the inference call.
C1_UnknownIs404 ==
    \A r \in Slots :
        /\ ((DoneOn(r, "predict") \/ DoneOn(r, "trends"))
                /\ ~Known(reqs[r].unit_id))
             => reqs[r].status = 404
        /\ reqs[r].pc = "await_predict" => Known(reqs[r].unit_id)

C1_Witness ==
    \E r, q \in Slots :
        /\ DoneOn(r, "predict") /\ reqs[r].unit_id = 99 /\ reqs[r].status = 404
        /\ DoneOn(q, "trends") /\ reqs[q].unit_id = 99 /\ reqs[q].status = 404

\* C2: /predict on a Retired engine answers 422 without invoking predict;
\* predict is invoked, exactly once, only by requests whose engine exists
\* and is not Retired.
C2_RetiredIs422 ==
    \A r \in Slots :
        /\ (DoneOn(r, "predict") /\ Known(reqs[r].unit_id)
                /\ StatusOf(reqs[r].unit_id) = "Retired")
             => (reqs[r].status = 422 /\ reqs[r].predict_calls = 0)
        /\ reqs[r].predict_calls \in {0, 1}
        /\ reqs[r].predict_calls = 1
             => (/\ reqs[r].route = "predict"
                 /\ Known(reqs[r].unit_id)
                 /\ StatusOf(reqs[r].unit_id) # "Retired")
        /\ ((DoneOn(r, "predict") \/ reqs[r].pc = "await_predict")
                /\ Known(reqs[r].unit_id)
                /\ StatusOf(reqs[r].unit_id) # "Retired")
             => reqs[r].predict_calls = 1

C2_Witness ==
    \E r, q \in Slots :
        /\ DoneOn(r, "predict") /\ reqs[r].unit_id = 2
        /\ reqs[r].status = 422 /\ reqs[r].predict_calls = 0
        /\ DoneOn(q, "predict") /\ reqs[q].status = 200
        /\ reqs[q].predict_calls = 1

\* C3: for every Active engine the /predict response is 200 with
\* predicted_rul = 45, current_cycle = max_cycles - 45, the requested
\* unit_id and confidence 0.95.
C3_ActivePrediction ==
    \A r \in Slots :
        (DoneOn(r, "predict") /\ Known(reqs[r].unit_id)
            /\ StatusOf(reqs[r].unit_id) = "Active")
          => LET mc == Get(FAKE_DB_ENGINES, reqs[r].unit_id).max_cycles
                 b == reqs[r].body
             IN  /\ reqs[r].status = 200
                 /\ b.predicted_rul = 45
                 /\ b.current_cycle = mc - 45
                 /\ b.current_cycle + b.predicted_rul = mc
                 /\ b.unit_id = reqs[r].unit_id
                 /\ b.confidence = 95

C3_Witness ==
    \E r \in Slots :
        /\ DoneOn(r, "predict") /\ reqs[r].unit_id = 1 /\ reqs[r].status = 200
        /\ reqs[r].body.current_cycle = 147

\* C4: every successful /predict response has health_score in [0,100] and a
\* risk_level that is High iff health_score < 30, Medium iff
\* 30 <= health_score < 70, Low otherwise.
C4_ScoreAndRisk ==
    \A r \in Slots :
        (DoneOn(r, "predict") /\ reqs[r].status = 200)
          => LET hs == reqs[r].body.health_score
                 risk == reqs[r].body.risk_level
             IN  /\ hs >= 0 /\ hs <= 10000
                 /\ risk \in {"High", "Medium", "Low"}
                 /\ risk = "High" <=> hs < 3000
                 /\ risk = "Medium" <=> (3000 <= hs /\ hs < 7000)
                 /\ risk = "Low" <=> hs >= 7000

C4_Witness ==
    \E r \in Slots :
        /\ DoneOn(r, "predict") /\ reqs[r].status = 200
        /\ reqs[r].unit_id = 5
        /\ reqs[r].body.health_score = 3000
        /\ reqs[r].body.risk_level = "Medium"

\* C5: for every known unit, Active or Retired, /trends answers 200 with 5
\* cycle points, 5 rul_trend values and the 4 series s_2, s_11, s_12, s_14
\* in that order, each of 5 values with 1400 + 2*i at index i; responses for
\* different units differ in unit_id only.
C5_Trends ==
    \A r \in Slots :
        (DoneOn(r, "trends") /\ Known(reqs[r].unit_id))
          => LET b == reqs[r].body
             IN  /\ reqs[r].status = 200
                 /\ b.unit_id = reqs[r].unit_id
                 /\ Len(b.cycles) = 5
                 /\ Len(b.rul_trend) = 5
                 /\ Len(b.sensors) = 4
                 /\ [k \in 1 .. 4 |-> b.sensors[k].sensor_id]
                      = <<"s_2", "s_11", "s_12", "s_14">>
                 /\ \A k \in 1 .. 4 :
                       /\ Len(b.sensors[k].data) = 5
                       /\ \A i \in 0 .. 4 :
                             b.sensors[k].data[i + 1] = 1400 + 2 * i
                 /\ \A q \in Slots :
                       (DoneOn(q, "trends") /\ Known(reqs[q].unit_id))
                         => [reqs[q].body EXCEPT !.unit_id = 0]
                              = [b EXCEPT !.unit_id = 0]

C5_Witness ==
    \E r, q \in Slots :
        /\ DoneOn(r, "trends") /\ reqs[r].unit_id = 2 /\ reqs[r].status = 200
        /\ DoneOn(q, "trends") /\ reqs[q].unit_id = 5 /\ reqs[q].status = 200

\* C6: /health and /ready answer 200 whenever they are handled, and /ready
\* handled after startup reports model_loaded = true.
C6_Probes ==
    \A r \in Slots :
        /\ DoneOn(r, "health")
             => (reqs[r].status = 200 /\ reqs[r].body = [status |-> "ok"])
        /\ DoneOn(r, "ready")
             => (reqs[r].status = 200
                 /\ reqs[r].body = [model_loaded |-> TRUE])

C6_Witness ==
    \E r, q \in Slots :
        /\ DoneOn(r, "ready") /\ reqs[r].status = 200
        /\ DoneOn(q, "health") /\ reqs[q].status = 200

\* C7: for every positive integer max_cycles, the health score returned by
\* predict is clamp(45 / max_cycles * 100, 0, 100) rounded to 2 decimals
\* (within half a hundredth of the exact value), and the risk_level
\* returned is the bucket of that rounded score.
C7_ScoreRule ==
    \A r \in Slots :
        (DoneOn(r, "predict") /\ Known(reqs[r].unit_id))
          => LET mc == Get(FAKE_DB_ENGINES, reqs[r].unit_id).max_cycles
                 hs == reqs[r].body.health_score
                 err == hs * mc - 450000
             IN  /\ reqs[r].status = 200
                 /\ IF 4500 >= 100 * mc
                    THEN hs = 10000
                    ELSE 2 * err <= mc /\ -2 * err <= mc
                 /\ reqs[r].body.risk_level = Bucket(hs)

C7_Witness ==
    \E r \in Slots :
        /\ DoneOn(r, "predict") /\ reqs[r].status = 200
        /\ Get(FAKE_DB_ENGINES, reqs[r].unit_id).max_cycles = 64
        /\ reqs[r].body.health_score = 7031
        /\ reqs[r].body.risk_level = "Low"

\* C8: no step of a request handler changes the engine table, the sensor
\* table or the model-loaded flag; the flag changes only in the startup
\* hook, from unset to set, and never back.
C8_Frame ==
    [][/\ FAKE_DB_ENGINES' = FAKE_DB_ENGINES
       /\ SENSOR_METADATA' = SENSOR_METADATA
       /\ reqs' # reqs
            => (model' = model /\ inference_service' = inference_service)
       /\ model' # model
            => (/\ lifespan_pc = "load_sleep"
                /\ model = "None"
                /\ model' = "LSTM_LOADED")
       /\ model = "LSTM_LOADED" => model' = "LSTM_LOADED"]_vars

C8_Witness ==
    /\ lifespan_pc = "shutdown"
    /\ model = "LSTM_LOADED"
    /\ \E r, q \in Slots :
          /\ DoneOn(r, "predict") /\ reqs[r].status = 200
          /\ DoneOn(q, "engines")

\* the response of a /predict request that is served alone
SoloPredict(unit_id) ==
    CASE unit_id = 1 ->
           [status |-> 200,
            body |-> [unit_id |-> 1, current_cycle |-> 147,
                      predicted_rul |-> 45, health_score |-> 2344,
                      risk_level |-> "High", confidence |-> 95]]
      [] unit_id = 5 ->
           [status |-> 200,
            body |-> [unit_id |-> 5, current_cycle |-> 105,
                      predicted_rul |-> 45, health_score |-> 3000,
                      risk_level |-> "Medium", confidence |-> 95]]
      [] unit_id = 2 ->
           [status |-> 422, body |-> [detail |-> "Engine is retired"]]
      [] OTHER ->
           [status |-> 404, body |-> [detail |-> "Engine not found"]]

\* C9: however /predict requests interleave at the inference delay, each
\* response is the one the same request gets when served alone, and two
\* requests for the same unit id get identical responses.
C9_Isolation ==
    \A r \in Slots :
        DoneOn(r, "predict")
          => /\ [status |-> reqs[r].status, body |-> reqs[r].body]
                  = SoloPredict(reqs[r].unit_id)
             /\ \A q \in Slots :
                   (DoneOn(q, "predict") /\ reqs[q].unit_id = reqs[r].unit_id)
                     => (reqs[q].status = reqs[r].status
                         /\ reqs[q].body = reqs[r].body)

C9_Witness ==
    \E r, q \in Slots :
        /\ DoneOn(r, "predict") /\ reqs[r].status = 200 /\ reqs[r].concurrent
        /\ DoneOn(q, "predict") /\ reqs[q].status = 200 /\ reqs[q].concurrent
        /\ reqs[r].unit_id # reqs[q].unit_id

\* C10: whenever the service is attached to the application state its model
\* is loaded; /ready never reports model_loaded = false and no /predict
\* request is served by a service whose model is not loaded.
C10_AttachedImpliesLoaded ==
    /\ inference_service => model = "LSTM_LOADED"
    /\ \A r \in Slots :
          /\ DoneOn(r, "ready") => reqs[r].body # [model_loaded |-> FALSE]
          /\ reqs[r].predict_calls > 0 => model = "LSTM_LOADED"

C10_Witness ==
    /\ inference_service
    /\ \E r, q \in Slots :
          /\ reqs[r].pc = "await_predict"
          /\ DoneOn(q, "ready")

====
